---- MODULE Spec2Model ----
(***************************************************************************)
(* Memory planning of torchinductor's wrapper code generator               *)
(* (torchinductor/codegen/wrapper.py): the request operations of           *)
(* WrapperCodeGen (codegen_allocation, codegen_free, codegen_inplace_reuse,*)
(* writeline), the planning lines with their plan / codegen methods, the   *)
(* reuse pool (MemoryPlanningState) and the two passes of generate.        *)
(*                                                                         *)
(* A line object is identified by its index in self.lines (generate never  *)
(* inserts or deletes between the tail trim and the end), so the pool      *)
(* holds indices where the code holds references to FreeIfNotReusedLine    *)
(* objects.  Header, prefix, return statement and benchmark harness are    *)
(* text assembled around the planned body and are not modelled.            *)
(***************************************************************************)
EXTENDS Integers, Sequences, FiniteSets, TLC

VARIABLES
    bufs,        \* the buffers the graph of this compilation holds
    lines,       \* WrapperCodeGen.lines
    allocated,   \* WrapperCodeGen.allocated
    freed,       \* WrapperCodeGen.freed
    removed,     \* V.graph.removed_buffers
    pc,          \* "build" (requests), "aborted" (a request's assertion failed),
                 \* "plan" (pass 1), "done" (rendered), "failed" (generate's assertion)
    i,           \* loop index of pass 1 (1-based)
    reuse_pool,  \* MemoryPlanningState.reuse_pool: key -> stack of line indices
    result,      \* the statements rendered by pass 2
    last,        \* history: the last operation and whether it changed the generator
    lines0,      \* history: self.lines when generate was entered
    poolLog      \* history: the pushes and pops of pass 1, in order

vars == <<bufs, lines, allocated, freed, removed, pc, i, reuse_pool, result,
          last, lines0, poolLog>>

\* ---------------------------------------------------------------- bounds

MaxLines == 4

\* ------------------------------------------------------------ the graph

None == "None"

Buffers == {"buf0", "buf1", "buf2", "buf3", "buf4", "buf5", "buf6", "buf7",
            "arg0", "const0"}

\* ir.Buffer.get_layout(): the layout class of each buffer
get_layout(b) ==
    CASE b = "buf5" -> "AliasedLayout"
      [] b = "buf6" -> "MultiOutputLayout"
      [] b = "buf7" -> "MutationLayout"
      [] OTHER      -> "FixedLayout"

\* layout.view.data of an AliasedLayout buffer
view_data(b) == IF b = "buf5" THEN "buf0" ELSE None

get_device(b) == "cuda"

get_dtype(b) == IF b = "buf4" THEN "float16" ELSE "float32"

get_size(b) ==
    CASE b = "buf2" -> <<16>>
      [] b = "buf6" -> <<2, 8>>
      [] OTHER      -> <<4, 4>>

get_stride(b) ==
    CASE b = "buf2" -> <<1>>
      [] b = "buf3" -> <<1, 4>>
      [] b = "buf6" -> <<8, 1>>
      [] OTHER      -> <<4, 1>>

graph_inputs == {"arg0"}

constants == {"const0"}

\* V.graph.get_output_names()
out_names == {"buf1", "buf3"}

\* the buffers dead-code elimination may remove, and the pairs the scheduler
\* may hand to codegen_inplace_reuse
Removable == {"buf0", "buf1", "buf5", "buf6"}

InplacePairs == {<<"buf0", "buf1">>, <<"buf2", "buf3">>, <<"buf0", "buf4">>,
                 <<"arg0", "buf1">>, <<"buf5", "buf1">>}

\* the graphs explored: each compilation holds one of these buffer sets
Graphs == {{"buf0", "buf1", "buf2", "buf3"},
           {"buf0", "buf1", "buf4", "buf5"},
           {"buf1", "buf6", "buf7", "arg0", "const0"}}

RECURSIVE sympy_product(_)
sympy_product(s) == IF s = <<>> THEN 1 ELSE Head(s) * sympy_product(Tail(s))

\* a key without the element type
buffer_reuse_key_nodtype(node) ==
    <<get_device(node), "float32", sympy_product(get_size(node))>>

buffer_reuse_key(node) ==
    <<get_device(node), get_dtype(node), sympy_product(get_size(node))>>

Keys == {buffer_reuse_key(b) : b \in Buffers}

\* ------------------------------------------------------------ the lines

AllocateLine(node) ==
    [type |-> "AllocateLine", node |-> node, reused_as |-> None,
     is_reused |-> FALSE]

FreeIfNotReusedLine(node) ==
    [type |-> "FreeIfNotReusedLine", node |-> node, reused_as |-> None,
     is_reused |-> FALSE]

ReuseLine(node, reused_as) ==
    [type |-> "ReuseLine", node |-> node, reused_as |-> reused_as,
     is_reused |-> FALSE]

FreeLine(node) ==
    [type |-> "FreeLine", node |-> node, reused_as |-> None,
     is_reused |-> FALSE]

NullLine ==
    [type |-> "NullLine", node |-> None, reused_as |-> None,
     is_reused |-> FALSE]

\* DeferredLine(name, f"{name} = {layout.view.codegen_reference()}  # alias"):
\* node is the name, reused_as the buffer the reference reads
DeferredLine(name, data) ==
    [type |-> "DeferredLine", node |-> name, reused_as |-> data,
     is_reused |-> FALSE]

\* the plain string f"del {name}"
DelString(name) ==
    [type |-> "str:del", node |-> name, reused_as |-> None, is_reused |-> FALSE]

\* a plain string written by call_kernel
KernelString ==
    [type |-> "str:kernel", node |-> None, reused_as |-> None,
     is_reused |-> FALSE]

\* isinstance(line, MemoryPlanningLine)
IsMemoryPlanningLine(line) ==
    line.type \in {"AllocateLine", "FreeIfNotReusedLine", "ReuseLine",
                   "FreeLine", "NullLine"}

\* ------------------------------------------------- rendered statements

Stmt(kind, name, old) == [stmt |-> kind, name |-> name, old |-> old]

\* a reuse rendering that compares the sizes only
make_buffer_reuse_sizeonly(old, new) ==
    IF get_size(old) = get_size(new)
    THEN Stmt("rebind", new, old)
    ELSE Stmt("reinterpret", new, old)

\* "new = old; del old" when size and stride agree, else
\* "new = as_strided(old, size, stride); del old"
make_buffer_reuse(old, new) ==
    IF get_size(old) = get_size(new) /\ get_stride(old) = get_stride(new)
    THEN Stmt("rebind", new, old)
    ELSE Stmt("reinterpret", new, old)

\* the assertion make_buffer_reuse starts with
make_buffer_reuse_assert(old, new) == get_dtype(old) = get_dtype(new)

\* "name = empty_strided(size, stride, device, dtype)"
make_buffer_allocation(buffer) == Stmt("allocate", buffer, None)

\* the names a rendered statement mentions, binds and releases
Mentions(s) == {s.name, s.old} \ {None}

Binds(s) ==
    IF s.stmt \in {"allocate", "rebind", "reinterpret", "alias"}
    THEN {s.name} ELSE {}

Releases(s) ==
    CASE s.stmt = "release" -> {s.name}
      [] s.stmt \in {"rebind", "reinterpret"} -> {s.old}
      [] OTHER -> {}

\* -------------------------------------------------- MemoryPlanningState

EmptyPool == [k \in Keys |-> <<>>]

\* MemoryPlanningState.__contains__
Pool_contains(pool, key) == pool[key] # <<>>

\* list.pop() of pop: takes the last entry off the key's list
Pool_pop_fifo(pool, key) ==
    [item |-> Head(pool[key]),
     pool |-> [pool EXCEPT ![key] = Tail(@)]]

Pool_pop_keep(pool, key) ==
    [item |-> pool[key][Len(pool[key])],
     pool |-> pool]

Pool_pop(pool, key) ==
    [item |-> pool[key][Len(pool[key])],
     pool |-> [pool EXCEPT ![key] = SubSeq(@, 1, Len(@) - 1)]]

\* list.append() of push
Pool_push(pool, key, item) == [pool EXCEPT ![key] = Append(@, item)]

PoolEvent(op, key, item, at) == [op |-> op, key |-> key, item |-> item, at |-> at]

\* ------------------------------------------------------- plan (pass 1)
\* P = [lines, pool, log, ok]: the line list, the pool, the log of pool
\* events and whether every assertion held; at is the index of self.

NullLine_plan(P, at) == P

FreeLine_plan(P, at) ==
    LET self == P.lines[at] IN
    IF self.node \in removed
    THEN [P EXCEPT !.lines[at] = NullLine]
    ELSE P

\* a plan that deletes the line of a removed buffer instead of replacing it
AllocateLine_plan_delete(P, at) ==
    LET self == P.lines[at] IN
    IF self.node \in removed
    THEN [P EXCEPT !.lines = SubSeq(P.lines, 1, at - 1)
                                \o SubSeq(P.lines, at + 1, Len(P.lines))]
    ELSE P

AllocateLine_plan_drop(P, at) ==
    LET self == P.lines[at] IN
    IF self.node \in removed \/ Pool_contains(P.pool, buffer_reuse_key(self.node))
    THEN [P EXCEPT !.lines[at] = NullLine]
    ELSE P

AllocateLine_plan(P, at) ==
    LET self == P.lines[at]
        key  == buffer_reuse_key(self.node)
    IN
    IF self.node \in removed
    THEN [P EXCEPT !.lines[at] = NullLine]
    ELSE IF Pool_contains(P.pool, key)
    THEN LET r         == Pool_pop(P.pool, key)
             free_line == P.lines[r.item]
         IN [lines |-> [P.lines EXCEPT ![r.item].is_reused = TRUE,
                                       ![at] = ReuseLine(free_line.node, self.node)],
             pool  |-> r.pool,
             log   |-> Append(P.log, PoolEvent("pop", key, r.item, at)),
             ok    |-> P.ok /\ ~free_line.is_reused]
    ELSE P

\* a plan that pushes the line of a removed buffer too
FreeIfNotReusedLine_plan_noremovedcheck(P, at) ==
    LET self == P.lines[at]
        key  == buffer_reuse_key(self.node)
    IN
    IF self.is_reused
    THEN [P EXCEPT !.ok = FALSE]
    ELSE [P EXCEPT !.pool = Pool_push(P.pool, key, at),
                   !.log  = Append(P.log, PoolEvent("push", key, at, at))]

FreeIfNotReusedLine_plan(P, at) ==
    LET self == P.lines[at]
        key  == buffer_reuse_key(self.node)
    IN
    IF self.is_reused
    THEN [P EXCEPT !.ok = FALSE]
    ELSE IF self.node \in removed
    THEN [P EXCEPT !.lines[at] = NullLine]
    ELSE [P EXCEPT !.pool = Pool_push(P.pool, key, at),
                   !.log  = Append(P.log, PoolEvent("push", key, at, at))]

\* a plan that drops the line of a removed target without releasing old
ReuseLine_plan_null(P, at) ==
    LET self == P.lines[at] IN
    IF self.reused_as \in removed
    THEN [P EXCEPT !.lines[at] = NullLine]
    ELSE [P EXCEPT !.ok = P.ok /\ self.node \notin removed]

ReuseLine_plan(P, at) ==
    LET self == P.lines[at] IN
    IF self.reused_as \in removed
    THEN FreeLine_plan([P EXCEPT !.lines[at] = FreeLine(self.node)], at)
    ELSE [P EXCEPT !.ok = P.ok /\ self.node \notin removed]

\* self.lines[i] = self.lines[i].plan(planning_state)
plan(P, at) ==
    LET t == P.lines[at].type IN
    CASE t = "AllocateLine"        -> AllocateLine_plan(P, at)
      [] t = "FreeIfNotReusedLine" -> FreeIfNotReusedLine_plan(P, at)
      [] t = "ReuseLine"           -> ReuseLine_plan(P, at)
      [] t = "FreeLine"            -> FreeLine_plan(P, at)
      [] t = "NullLine"            -> NullLine_plan(P, at)

\* ----------------------------------------------------- codegen (pass 2)
\* each gives the statements the line writes (none or one)

AllocateLine_codegen(self) == <<make_buffer_allocation(self.node)>>

FreeIfNotReusedLine_codegen(self) ==
    IF ~self.is_reused THEN <<Stmt("release", self.node, None)>> ELSE <<>>

ReuseLine_codegen(self) == <<make_buffer_reuse(self.node, self.reused_as)>>

FreeLine_codegen(self) == <<Stmt("release", self.node, None)>>

\* DeferredLine.__call__: the line is unwritten once its name is removed
DeferredLine_call(self) ==
    IF self.node \in removed THEN <<>>
    ELSE <<Stmt("alias", self.node, self.reused_as)>>

\* the assertions of the codegen methods
codegen_assert(self) ==
    CASE self.type \in {"AllocateLine", "FreeIfNotReusedLine", "FreeLine"} ->
            self.node \notin removed
      [] self.type = "ReuseLine" ->
            /\ self.node \notin removed
            /\ self.reused_as \notin removed
            /\ make_buffer_reuse_assert(self.node, self.reused_as)
      [] OTHER -> TRUE

\* one iteration of the second loop of generate
codegen(line) ==
    CASE line.type = "AllocateLine"        -> AllocateLine_codegen(line)
      [] line.type = "FreeIfNotReusedLine" -> FreeIfNotReusedLine_codegen(line)
      [] line.type = "ReuseLine"           -> ReuseLine_codegen(line)
      [] line.type = "FreeLine"            -> FreeLine_codegen(line)
      [] line.type = "NullLine"            -> <<>>
      [] line.type = "DeferredLine"        -> DeferredLine_call(line)
      [] line.type = "str:del"             -> <<Stmt("release", line.node, None)>>
      [] line.type = "str:kernel"          -> <<Stmt("kernel", None, None)>>

\* a rendered statement with the index of the line that wrote it
At(stmts, at) == [k \in 1..Len(stmts) |-> [s |-> stmts[k], at |-> at]]

RECURSIVE render_from(_, _)
render_from(ls, at) ==
    IF at > Len(ls) THEN <<>>
    ELSE At(codegen(ls[at]), at) \o render_from(ls, at + 1)

render(ls) == render_from(ls, 1)

render_assert(ls) == \A k \in 1..Len(ls) : codegen_assert(ls[k])

\* ------------------------------------------------------------ tail trim

\* a trim that removes one line only
trim_tail_once(ls) ==
    IF /\ ls # <<>>
       /\ IsMemoryPlanningLine(ls[Len(ls)])
       /\ ls[Len(ls)].node \notin out_names
    THEN SubSeq(ls, 1, Len(ls) - 1)
    ELSE ls

RECURSIVE trim_tail(_)
trim_tail(ls) ==
    IF /\ ls # <<>>
       /\ IsMemoryPlanningLine(ls[Len(ls)])
       /\ ls[Len(ls)].node \notin out_names
    THEN trim_tail(SubSeq(ls, 1, Len(ls) - 1))
    ELSE ls

\* ------------------------------------------- WrapperCodeGen's requests
\* W = [lines, allocated, freed]: the fields of the generator a request
\* reads and writes.

writeline(W, line) == [W EXCEPT !.lines = Append(@, line)]

\* codegen_allocation without the memo of handled names
RECURSIVE codegen_allocation_nomemo(_, _)
codegen_allocation_nomemo(W, buffer) ==
    LET name   == buffer
        layout == get_layout(buffer)
        W1     == [W EXCEPT !.allocated = @ \cup {name}]
    IN
    IF name \in removed THEN W
    ELSE IF layout = "MutationLayout" THEN W1
    ELSE IF layout = "AliasedLayout"
    THEN writeline(codegen_allocation_nomemo(W1, view_data(buffer)),
                   DeferredLine(name, view_data(buffer)))
    ELSE writeline(W1, AllocateLine(buffer))

\* codegen_allocation that binds the alias before it allocates the source
RECURSIVE codegen_allocation_aliasfirst(_, _)
codegen_allocation_aliasfirst(W, buffer) ==
    LET name   == buffer
        layout == get_layout(buffer)
        W1     == [W EXCEPT !.allocated = @ \cup {name}]
    IN
    IF name \in removed \/ name \in W.allocated THEN W
    ELSE IF layout = "MutationLayout" THEN W1
    ELSE IF layout = "AliasedLayout"
    THEN codegen_allocation_aliasfirst(
             writeline(W1, DeferredLine(name, view_data(buffer))),
             view_data(buffer))
    ELSE writeline(W1, AllocateLine(buffer))

RECURSIVE codegen_allocation(_, _)
codegen_allocation(W, buffer) ==
    LET name   == buffer
        layout == get_layout(buffer)
        W1     == [W EXCEPT !.allocated = @ \cup {name}]
    IN
    IF name \in removed \/ name \in W.allocated THEN W
    ELSE IF layout = "MutationLayout" THEN W1
    ELSE IF layout = "AliasedLayout"
    THEN writeline(codegen_allocation(W1, view_data(buffer)),
                   DeferredLine(name, view_data(buffer)))
    ELSE writeline(W1, AllocateLine(buffer))

can_reuse(W, buffer) ==
    LET name == buffer IN
    IF \/ name \in removed
       \/ name \in graph_inputs
       \/ name \in constants
       \/ name \in W.freed
    THEN FALSE
    ELSE TRUE

codegen_free(W, buffer) ==
    LET name   == buffer
        layout == get_layout(buffer)
        W1     == [W EXCEPT !.freed = @ \cup {name}]
    IN
    IF ~can_reuse(W, buffer) THEN W
    ELSE IF layout \in {"AliasedLayout", "MultiOutputLayout"}
    THEN writeline(W1, DelString(name))
    ELSE writeline(W1, FreeIfNotReusedLine(buffer))

\* a request without its precondition
codegen_inplace_reuse_assert_off(input_buffer, output_buffer) == TRUE

\* the assertion codegen_inplace_reuse starts with
codegen_inplace_reuse_assert(input_buffer, output_buffer) ==
    buffer_reuse_key(input_buffer) = buffer_reuse_key(output_buffer)

\* a request that does not mark its input freed
codegen_inplace_reuse_nofreed(W, input_buffer, output_buffer) ==
    LET W1 == codegen_allocation(W, input_buffer)
        W2 == [W1 EXCEPT !.allocated = @ \cup {output_buffer}]
    IN writeline(W2, ReuseLine(input_buffer, output_buffer))

codegen_inplace_reuse(W, input_buffer, output_buffer) ==
    LET W1 == codegen_allocation(W, input_buffer)
        W2 == [W1 EXCEPT !.freed = @ \cup {input_buffer},
                         !.allocated = @ \cup {output_buffer}]
    IN writeline(W2, ReuseLine(input_buffer, output_buffer))

Wrapper == [lines |-> lines, allocated |-> allocated, freed |-> freed]

Op(name, changed) == [op |-> name, changed |-> changed]

\* ------------------------------------------------------------- actions

Init ==
    /\ bufs \in Graphs
    /\ lines = <<>>
    /\ allocated = {}
    /\ freed = {}
    /\ removed = {}
    /\ pc = "build"
    /\ i = 0
    /\ reuse_pool = EmptyPool
    /\ result = <<>>
    /\ last = Op("init", FALSE)
    /\ lines0 = <<>>
    /\ poolLog = <<>>

Building == pc = "build" /\ Len(lines) < MaxLines

UnchangedPlanner == UNCHANGED <<bufs, removed, i, reuse_pool, result, lines0, poolLog>>

Call_codegen_allocation(b) ==
    /\ Building
    /\ LET W == codegen_allocation(Wrapper, b) IN
        /\ lines' = W.lines
        /\ allocated' = W.allocated
        /\ freed' = W.freed
        /\ last' = Op("codegen_allocation", W # Wrapper)
    /\ UNCHANGED pc
    /\ UnchangedPlanner

Call_codegen_free(b) ==
    /\ Building
    /\ LET W == codegen_free(Wrapper, b) IN
        /\ lines' = W.lines
        /\ allocated' = W.allocated
        /\ freed' = W.freed
        /\ last' = Op("codegen_free", W # Wrapper)
    /\ UNCHANGED pc
    /\ UnchangedPlanner

Call_codegen_inplace_reuse(a, b) ==
    /\ Building
    /\ IF codegen_inplace_reuse_assert(a, b)
       THEN LET W == codegen_inplace_reuse(Wrapper, a, b) IN
            /\ lines' = W.lines
            /\ allocated' = W.allocated
            /\ freed' = W.freed
            /\ last' = Op("codegen_inplace_reuse", W # Wrapper)
            /\ UNCHANGED pc
       ELSE /\ UNCHANGED <<lines, allocated, freed>>
            /\ last' = Op("codegen_inplace_reuse", FALSE)
            /\ pc' = "aborted"
    /\ UnchangedPlanner

\* call_kernel: a plain statement is written
Call_writeline ==
    /\ Building
    /\ lines' = writeline(Wrapper, KernelString).lines
    /\ last' = Op("writeline", TRUE)
    /\ UNCHANGED <<allocated, freed, pc>>
    /\ UnchangedPlanner

\* the graph marks a buffer dead while the requests are being made
RemoveBuffer(b) ==
    /\ pc = "build"
    /\ b \notin removed
    /\ removed' = removed \cup {b}
    /\ last' = Op("remove", FALSE)
    /\ UNCHANGED <<bufs, lines, allocated, freed, pc, i, reuse_pool, result,
                   lines0, poolLog>>

\* generate, up to the start of pass 1: the tail trim and a fresh pool
generate_trim ==
    /\ pc = "build"
    /\ lines0' = lines
    /\ lines' = trim_tail(lines)
    /\ reuse_pool' = EmptyPool
    /\ poolLog' = <<>>
    /\ i' = 1
    /\ pc' = "plan"
    /\ last' = Op("generate", FALSE)
    /\ UNCHANGED <<bufs, allocated, freed, removed, result>>

\* one iteration of the loop of pass 1
generate_plan ==
    /\ pc = "plan"
    /\ i <= Len(lines)
    /\ LET P0 == [lines |-> lines, pool |-> reuse_pool, log |-> poolLog, ok |-> TRUE]
           P  == IF IsMemoryPlanningLine(lines[i]) THEN plan(P0, i) ELSE P0
       IN /\ lines' = P.lines
          /\ reuse_pool' = P.pool
          /\ poolLog' = P.log
          /\ pc' = IF P.ok THEN "plan" ELSE "failed"
    /\ i' = i + 1
    /\ UNCHANGED <<bufs, allocated, freed, removed, result, last, lines0>>

\* pass 2
generate_render ==
    /\ pc = "plan"
    /\ i > Len(lines)
    /\ IF render_assert(lines)
       THEN result' = render(lines) /\ pc' = "done"
       ELSE result' = result /\ pc' = "failed"
    /\ UNCHANGED <<bufs, lines, allocated, freed, removed, i, reuse_pool, last,
                   lines0, poolLog>>

Next ==
    \/ \E b \in bufs : Call_codegen_allocation(b)
    \/ \E b \in bufs : Call_codegen_free(b)
    \/ \E p \in InplacePairs :
          p[1] \in bufs /\ p[2] \in bufs /\ Call_codegen_inplace_reuse(p[1], p[2])
    \/ Call_writeline
    \/ \E b \in Removable \cap bufs : RemoveBuffer(b)
    \/ generate_trim
    \/ generate_plan
    \/ generate_render

Spec == Init /\ [][Next]_vars

\* ------------------------------------------------------------- helpers

Generating == pc \in {"plan", "done", "failed"}

Max(S) == CHOOSE x \in S : \A y \in S : y <= x

\* the events of the pool log
Events == {poolLog[p] : p \in 1..Len(poolLog)}

\* the pool entries of key k that are pushed and not consumed when the line
\* at index at is planned (an entry is the index of its ConditionallyFree line)
LiveAt(at, k) ==
    {e.item : e \in {x \in Events : x.op = "push" /\ x.key = k /\ x.at < at
                        /\ ~\E y \in Events : y.op = "pop" /\ y.item = x.item
                                                /\ y.at < at}}

\* how many rendered statements bind name b
BindCount(b) == Cardinality({k \in 1..Len(result) : b \in Binds(result[k].s)})

\* the Allocate-equivalent events of b in a line list: Allocate line, alias
\* binding, Reuse target
AllocEvents(ls, b) ==
    {k \in 1..Len(ls) :
        \/ ls[k].type \in {"AllocateLine", "DeferredLine"} /\ ls[k].node = b
        \/ ls[k].type = "ReuseLine" /\ ls[k].reused_as = b}

\* the terminal events of b: ConditionallyFree, release, Reuse source
TerminalEvents(ls, b) ==
    {k \in 1..Len(ls) :
        /\ ls[k].type \in {"FreeIfNotReusedLine", "FreeLine", "str:del", "ReuseLine"}
        /\ ls[k].node = b}

\* the lines generate kept: lines0 without the trimmed tail
Kept == SubSeq(lines0, 1, Len(lines))

\* ---------------------------------------------------------------- C1
\* C1 (LIFO reuse): in pass 1 every planned Allocate line of a non-removed
\* buffer becomes Reuse(F, new) where F is the buffer of the most recently
\* pushed, not yet consumed pool entry of its key, and stays an Allocate
\* line when no such entry exists; every pop takes that entry.
C1_LifoReuse ==
    Generating =>
        /\ \A at \in 1..Len(lines) :
              (at < i /\ lines0[at].type = "AllocateLine"
                      /\ lines0[at].node \notin removed) =>
                 LET live == LiveAt(at, buffer_reuse_key(lines0[at].node)) IN
                 IF live = {}
                 THEN lines[at] = lines0[at]
                 ELSE lines[at] = ReuseLine(lines0[Max(live)].node, lines0[at].node)
        /\ \A e \in Events :
              e.op = "pop" => LiveAt(e.at, e.key) # {} /\ e.item = Max(LiveAt(e.at, e.key))

\* two ConditionallyFree lines F1, F2 of one key, then two Allocate lines:
\* the first became Reuse(F2, .), the second Reuse(F1, .)
C1_Witness ==
    /\ pc = "done"
    /\ \E a, b, c, d \in 1..Len(lines) :
          /\ a < b /\ b < c /\ c < d
          /\ lines[a].type = "FreeIfNotReusedLine"
          /\ lines[b].type = "FreeIfNotReusedLine"
          /\ lines0[c].type = "AllocateLine"
          /\ lines0[d].type = "AllocateLine"
          /\ lines[c] = ReuseLine(lines[b].node, lines0[c].node)
          /\ lines[d] = ReuseLine(lines[a].node, lines0[d].node)
          /\ Cardinality({lines[a].node, lines[b].node, lines0[c].node,
                          lines0[d].node}) = 4

\* ---------------------------------------------------------------- C2
\* C2 (removed-buffer erasure): no statement of the rendered output mentions
\* the name of a buffer that is in the removed set when generate runs.
C2_RemovedErasure ==
    pc = "done" =>
        \A k \in 1..Len(result) : Mentions(result[k].s) \cap removed = {}

C4_TrimKeepsOutputs ==
    Generating =>
        \A k \in 1..Len(lines0) :
            (/\ IsMemoryPlanningLine(lines0[k])
             /\ {lines0[k].node, lines0[k].reused_as} \cap out_names # {})
            => k <= Len(lines)

C6_IdempotentAllocation ==
    /\ [][\A b \in Buffers :
            (Call_codegen_allocation(b) /\ b \in allocated)
                => UNCHANGED <<lines, allocated, freed>>]_vars
    /\ [](\A b \in Buffers :
            /\ Cardinality({k \in 1..Len(lines) :
                  lines[k].type = "AllocateLine" /\ lines[k].node = b}) <= 1
            /\ Cardinality({k \in 1..Len(result) :
                  result[k].s.stmt = "allocate" /\ result[k].s.name = b}) <= 1)

\* an allocation request was repeated for a handled name: nothing is removed,
\* so the request that changed nothing was for a buffer of the allocated set,
\* and the line list holds an Allocate line
C6_Witness ==
    /\ pc = "build"
    /\ last = Op("codegen_allocation", FALSE)
    /\ removed = {}
    /\ \E k \in 1..Len(lines) : lines[k].type = "AllocateLine"

\* ---------------------------------------------------------------- C7
\* C7 (order preservation): pass 1 rewrites each Planning-Line at its own
\* index: the planned list has the length of the tail-trimmed input, plain
\* lines are untouched, a line not yet planned is as it was, a planned line
\* is a Planning-Line about the buffer of the line it replaces; the rendered
\* statements follow the order of the lines that wrote them, each plain
\* statement rendered once at its place.
C7_OrderPreserved ==
    Generating =>
        /\ Len(lines) = Len(trim_tail(lines0))
        /\ \A k \in 1..Len(lines) :
              /\ ~IsMemoryPlanningLine(lines0[k]) => lines[k] = lines0[k]
              /\ (pc = "plan" /\ k >= i) => lines[k] = lines0[k]
              /\ IsMemoryPlanningLine(lines0[k]) =>
                    /\ IsMemoryPlanningLine(lines[k])
                    /\ lines[k].type # "NullLine" =>
                          lines0[k].node \in {lines[k].node, lines[k].reused_as}
        /\ pc = "done" =>
              /\ \A p, q \in 1..Len(result) : p < q => result[p].at < result[q].at
              /\ \A k \in 1..Len(lines) :
                    lines0[k].type = "str:kernel" =>
                       \E p \in 1..Len(result) :
                          result[p] = [s |-> Stmt("kernel", None, None), at |-> k]

\* a plain statement sits between two rendered Planning-Lines, one of which
\* pass 1 rewrote
C7_Witness ==
    /\ pc = "done"
    /\ \E p, q, r \in 1..Len(result) :
          /\ p < q /\ q < r
          /\ result[q].s.stmt = "kernel"
          /\ result[p].s.stmt # "kernel"
          /\ result[r].s.stmt \in {"rebind", "reinterpret"}
          /\ lines0[result[r].at].type = "AllocateLine"

\* ---------------------------------------------------------------- C8
\* C8: after any sequence of requests each buffer name is the subject of at
\* most one Allocate-equivalent event and at most one terminal event in the
\* enqueued line list.
C8_AtMostOneEvent ==
    pc = "build" =>
        \A b \in Buffers :
            /\ Cardinality(AllocEvents(lines, b)) <= 1
            /\ Cardinality(TerminalEvents(lines, b)) <= 1

\* ---------------------------------------------------------------- C9
\* C9: a graph input or named constant is never pushed into the pool and no
\* rendered statement releases its name.
C9_InputsNeverReleased ==
    /\ \A e \in Events :
          e.op = "push" => lines0[e.item].node \notin graph_inputs \cup constants
    /\ pc = "done" =>
          \A k \in 1..Len(result) :
              Releases(result[k].s) \cap (graph_inputs \cup constants) = {}

\* --------------------------------------------------------------- C10
\* C10 (at-most-once consumption): an entry that was popped from the pool is
\* marked reused, is in no pool list, and no later push or pop concerns it;
\* each pop made one Reuse line whose source is the entry's buffer.
C10_ConsumedOnce ==
    /\ \A p, q \in 1..Len(poolLog) :
          (p < q /\ poolLog[p].op = "pop") => poolLog[q].item # poolLog[p].item
    /\ \A e \in Events :
          e.op = "pop" =>
              /\ lines[e.item].is_reused
              /\ \A k \in Keys : \A j \in 1..Len(reuse_pool[k]) : reuse_pool[k][j] # e.item
              /\ lines[e.at].type = "ReuseLine"
              /\ lines[e.at].node = lines0[e.item].node

\* an entry was consumed, and pass 1 pushed and popped another one after it
C10_Witness ==
    /\ pc = "done"
    /\ \E p, q, r \in 1..Len(poolLog) :
          /\ p < q /\ q < r
          /\ poolLog[p].op = "pop"
          /\ poolLog[q].op = "push"
          /\ poolLog[r].op = "pop"

\* --------------------------------------------------------------- C11
\* C11 (shape/stride-sensitive reuse rendering): every Reuse(old, new) line
\* renders one statement, a rebind of new to old when new's size and stride
\* both equal old's and a reinterpretation of old's storage otherwise, and
\* either form releases old.
C11_ReuseRendering ==
    pc = "done" =>
        \A k \in 1..Len(lines) :
            lines[k].type = "ReuseLine" =>
                LET old  == lines[k].node
                    new  == lines[k].reused_as
                    same == get_size(new) = get_size(old)
                              /\ get_stride(new) = get_stride(old)
                    at_k == {r \in 1..Len(result) : result[r].at = k}
                IN /\ Cardinality(at_k) = 1
                   /\ \A r \in at_k :
                         /\ result[r].s.stmt = IF same THEN "rebind" ELSE "reinterpret"
                         /\ result[r].s.name = new
                         /\ result[r].s.old = old
                         /\ Releases(result[r].s) = {old}

\* one output holds a rebind and a reinterpretation between buffers of equal
\* size and different stride
C11_Witness ==
    /\ pc = "done"
    /\ \E r \in 1..Len(result) : result[r].s.stmt = "rebind"
    /\ \E r \in 1..Len(result) :
          /\ result[r].s.stmt = "reinterpret"
          /\ get_size(result[r].s.name) = get_size(result[r].s.old)
          /\ get_stride(result[r].s.name) # get_stride(result[r].s.old)

\* --------------------------------------------------------------- C12
\* C12: every Reuse(old, new) line of the line list, found through the pool
\* or enqueued by codegen_inplace_reuse, pairs buffers of the same device,
\* the same element type and the same total element count.
C12_ReuseKeysEqual ==
    \A k \in 1..Len(lines) :
        lines[k].type = "ReuseLine" =>
            /\ get_device(lines[k].node) = get_device(lines[k].reused_as)
            /\ get_dtype(lines[k].node) = get_dtype(lines[k].reused_as)
            /\ sympy_product(get_size(lines[k].node))
                  = sympy_product(get_size(lines[k].reused_as))

\* pass 1 made a Reuse line through the pool that pairs buffers of different
\* shapes, beside a Reuse line that codegen_inplace_reuse enqueued
C12_Witness ==
    /\ pc = "done"
    /\ \E k \in 1..Len(lines) :
          /\ lines[k].type = "ReuseLine"
          /\ lines0[k].type = "AllocateLine"
          /\ get_size(lines[k].node) # get_size(lines[k].reused_as)
    /\ \E k \in 1..Len(lines) :
          lines[k].type = "ReuseLine" /\ lines0[k].type = "ReuseLine"

\* --------------------------------------------------------------- C13
\* C13: codegen_inplace_reuse for two buffers whose reuse keys differ (in
\* device, element type or element count) fails on its precondition and
\* leaves the generator as it was: no line is appended and neither the
\* allocated nor the freed set changes.
KeysDiffer(a, b) ==
    \/ get_device(a) # get_device(b)
    \/ get_dtype(a) # get_dtype(b)
    \/ sympy_product(get_size(a)) # sympy_product(get_size(b))

C13_InplaceMismatchAborts ==
    /\ [][\A p \in InplacePairs :
            (Call_codegen_inplace_reuse(p[1], p[2]) /\ KeysDiffer(p[1], p[2]))
                => (pc' = "aborted" /\ UNCHANGED <<lines, allocated, freed>>)]_vars
    /\ [](pc = "aborted" => last = Op("codegen_inplace_reuse", FALSE))

\* the request failed after other requests had filled the generator
C13_Witness ==
    /\ pc = "aborted"
    /\ Len(lines) >= 2
    /\ allocated # {}
    /\ freed # {}

\* --------------------------------------------------------------- C14
\* C14: in pass 1 a Reuse(old, new) line whose new buffer is removed becomes
\* UnconditionalFree(old) when old is not removed, rendering one release of
\* old and no binding of new, and NoOp when old is removed too; it never
\* pushes old into the pool.  With new not removed the line is unchanged,
\* and planning fails when old is removed.
C14_ReusePlan ==
    Generating =>
        /\ \A k \in 1..Len(lines) :
              (k < i /\ lines0[k].type = "ReuseLine") =>
                 LET old == lines0[k].node
                     new == lines0[k].reused_as
                     at_k == {r \in 1..Len(result) : result[r].at = k}
                 IN
                 /\ (new \in removed /\ old \notin removed) =>
                       /\ lines[k] = FreeLine(old)
                       /\ pc = "done" =>
                             /\ Cardinality(at_k) = 1
                             /\ \A r \in at_k : result[r].s = Stmt("release", old, None)
                 /\ (new \in removed /\ old \in removed) =>
                       /\ lines[k] = NullLine
                       /\ at_k = {}
                 /\ (new \notin removed /\ old \notin removed) => lines[k] = lines0[k]
                 /\ (new \notin removed /\ old \in removed) => pc = "failed"
                 /\ \A e \in Events : e.at # k
        /\ pc = "failed" =>
              /\ lines0[i - 1].type = "ReuseLine"
              /\ lines0[i - 1].node \in removed
              /\ lines0[i - 1].reused_as \notin removed

\* the output of one generate holds the release a degraded Reuse line wrote
C14_Witness ==
    /\ pc = "done"
    /\ \E k \in 1..Len(lines) :
          /\ lines0[k].type = "ReuseLine"
          /\ lines[k].type = "FreeLine"
          /\ \E r \in 1..Len(result) :
                result[r] = [s |-> Stmt("release", lines0[k].node, None), at |-> k]

\* --------------------------------------------------------------- C15
\* C15: codegen_free of an eligible View-alias or Multi-output buffer
\* enqueues an UnconditionalFree Planning-Line, not a ConditionallyFree and
\* not a plain statement, so its release is subject to the removed-buffer
\* check of pass 1 and to the tail trim, and the buffer never enters the
\* pool.
C15_AliasFreeIsPlanningLine ==
    /\ \A k \in 1..Len(lines) :
          (/\ lines[k].type \in {"str:del", "FreeIfNotReusedLine", "FreeLine"}
           /\ get_layout(lines[k].node) \in {"AliasedLayout", "MultiOutputLayout"})
          => lines[k].type = "FreeLine"
    /\ \A e \in Events :
          e.op = "push" =>
              get_layout(lines0[e.item].node) \notin {"AliasedLayout", "MultiOutputLayout"}

\* --------------------------------------------------------------- C16
\* C16: codegen_inplace_reuse(input, output) with equal keys appends, in this
\* order, input's allocation (only when input is neither allocated nor
\* removed) and Reuse(input, output), adds input to the freed set and output
\* to the allocated set; a later codegen_free(input) or
\* codegen_allocation(output) appends nothing, so no ConditionallyFree line
\* of input and no Allocate line of output follows the Reuse line.
C16_InplaceReuseEffect ==
    /\ [][\A p \in InplacePairs :
            (Call_codegen_inplace_reuse(p[1], p[2]) /\ ~KeysDiffer(p[1], p[2])) =>
                LET n  == Len(lines)
                    n2 == Len(lines')
                IN /\ n2 > n
                   /\ SubSeq(lines', 1, n) = lines
                   /\ lines'[n2] = ReuseLine(p[1], p[2])
                   /\ p[1] \in allocated \cup removed => n2 = n + 1
                   /\ p[1] \notin allocated \cup removed =>
                         /\ \A k \in (n + 1)..(n2 - 1) :
                               lines'[k].type \in {"AllocateLine", "DeferredLine"}
                         /\ get_layout(p[1]) # "MutationLayout" =>
                               /\ n2 > n + 1
                               /\ lines'[n2 - 1].type \in {"AllocateLine", "DeferredLine"}
                               /\ lines'[n2 - 1].node = p[1]
                   /\ freed' = freed \cup {p[1]}
                   /\ allocated \cup {p[2]} \subseteq allocated']_vars
    /\ [][\A b \in Buffers :
            (Call_codegen_free(b) /\ b \in freed)
                => UNCHANGED <<lines, allocated, freed>>]_vars
    /\ [][\A b \in Buffers :
            (Call_codegen_allocation(b) /\ b \in allocated)
                => UNCHANGED <<lines, allocated, freed>>]_vars
    /\ [](Generating =>
            \A e \in Events :
                e.op = "push" =>
                    ~\E k \in 1..(e.item - 1) :
                        /\ lines0[k].type = "ReuseLine"
                        /\ lines0[k].node = lines0[e.item].node)
    /\ [](pc = "build" =>
            \A k \in 1..Len(lines) :
                lines[k].type = "ReuseLine" =>
                    /\ lines[k].node \in freed
                    /\ lines[k].reused_as \in allocated
                    /\ \A j \in (k + 1)..Len(lines) :
                          /\ ~(lines[j].type \in {"FreeIfNotReusedLine", "str:del"}
                                 /\ lines[j].node = lines[k].node)
                          /\ ~(lines[j].type = "AllocateLine"
                                 /\ lines[j].node = lines[k].reused_as))

\* a codegen_free that appended nothing was made for the input of an earlier
\* codegen_inplace_reuse: the graph holds no input or constant, nothing is
\* removed, and the only freed name is the input of the enqueued Reuse line
C16_Witness ==
    /\ pc = "build"
    /\ last = Op("codegen_free", FALSE)
    /\ removed = {}
    /\ bufs \cap (graph_inputs \cup constants) = {}
    /\ \E k \in 1..Len(lines) :
          /\ lines[k].type = "ReuseLine"
          /\ freed = {lines[k].node}
          /\ k >= 2 /\ lines[k - 1] = AllocateLine(lines[k].node)

\* --------------------------------------------------------------- C17
\* C17: codegen_allocation(b) for a View-alias buffer b that is neither
\* removed nor allocated first makes the request for the aliased source and
\* only then appends b's deferred alias binding: every allocation event of
\* the source stands before b's binding, and one exists whenever the source
\* is not removed; the binding is no planning line, pass 1 leaves it as it
\* is and no pool event names it; a Mutation-target buffer appends no line.
C17_AliasAfterSource ==
    /\ [][\A b \in Buffers :
            (/\ Call_codegen_allocation(b)
             /\ get_layout(b) = "AliasedLayout"
             /\ b \notin allocated \cup removed) =>
                LET src == view_data(b)
                    pre == IF src \in allocated \cup removed THEN <<>>
                           ELSE <<AllocateLine(src)>>
                IN /\ lines' = lines \o pre \o <<DeferredLine(b, src)>>
                   /\ allocated' = allocated \cup {b}
                                     \cup (IF src \in removed THEN {} ELSE {src})
                   /\ freed' = freed]_vars
    /\ [][\A b \in Buffers :
            (Call_codegen_allocation(b) /\ get_layout(b) = "MutationLayout")
                => lines' = lines]_vars
    /\ [](\A k \in 1..Len(lines) :
            /\ lines[k].type \in {"AllocateLine", "DeferredLine"}
                  => get_layout(lines[k].node) # "MutationLayout"
            /\ lines[k].type = "DeferredLine" =>
                  LET src == lines[k].reused_as IN
                  /\ ~IsMemoryPlanningLine(lines[k])
                  /\ src = view_data(lines[k].node)
                  /\ AllocEvents(lines, src) \subseteq 1..(k - 1)
                  /\ src \notin removed => AllocEvents(lines, src) # {})
    /\ [](Generating =>
            \A k \in 1..Len(lines0) :
                lines0[k].type = "DeferredLine" =>
                    /\ k <= Len(lines) /\ lines[k] = lines0[k]
                    /\ \A e \in Events : e.item # k /\ e.at # k)

\* generate has planned and rendered a list in which the Allocate line of
\* the source buf0 stands before the alias binding of buf5, pass 1 used the
\* pool, and the output binds the alias
C17_Witness ==
    /\ pc = "done"
    /\ \E k \in 2..Len(lines0) :
          /\ lines0[k] = DeferredLine("buf5", "buf0")
          /\ lines0[k - 1] = AllocateLine("buf0")
    /\ Events # {}
    /\ \E r \in 1..Len(result) : result[r].s = Stmt("alias", "buf5", "buf0")

\* --------------------------------------------------------------- C18
\* C18 (aliasing safety): in the rendered program, between the alias binding
\* of y = view(x) and the release of y no statement hands the storage of x
\* to a new buffer (no rendered Reuse(x, z)).
C18_AliasingSafety ==
    pc = "done" =>
        \A p, q \in 1..Len(result) :
            (/\ p < q
             /\ result[p].s.stmt = "alias"
             /\ result[q].s.stmt \in {"rebind", "reinterpret"}
             /\ result[q].s.old = result[p].s.old)
                => \E r \in (p + 1)..(q - 1) :
                      result[p].s.name \in Releases(result[r].s)

\* --------------------------------------------------------------- C19
\* C19 (exactly-once release): for every ConditionallyFree(b) line that
\* survives pass 1 the rendered output releases the name b exactly once:
\* by the line's own release statement when the entry was never marked
\* reused, else by the release inside exactly one Reuse(b, new) statement
\* written by a later line, and never by both.
C19_ReleasedOnce ==
    pc = "done" =>
        \A k \in 1..Len(lines) :
            lines[k].type = "FreeIfNotReusedLine" =>
                LET b   == lines[k].node
                    rel == {r \in 1..Len(result) : b \in Releases(result[r].s)}
                IN /\ Cardinality(rel) = 1
                   /\ \A r \in rel :
                         IF lines[k].is_reused
                         THEN /\ result[r].at > k
                              /\ result[r].s.stmt \in {"rebind", "reinterpret"}
                         ELSE /\ result[r].at = k
                              /\ result[r].s.stmt = "release"

\* --------------------------------------------------------------- C20
\* C20 (pool invariant of pass 1): at every step every entry of the pool is
\* an already planned ConditionallyFree line that is not marked reused,
\* whose buffer is not removed, that is stored under the reuse key of its
\* own buffer and that occurs once in the pool; so the line pass 1 is about
\* to plan never trips the not-reused assertion of pop, push or
\* ConditionallyFree.plan, and a failed generate failed on a Reuse line
\* whose old buffer is removed.
C20_PoolInvariant ==
    Generating =>
        /\ \A key \in Keys :
              \A p \in 1..Len(reuse_pool[key]) :
                  LET idx == reuse_pool[key][p] IN
                  /\ idx \in 1..Len(lines)
                  /\ idx < i
                  /\ lines[idx].type = "FreeIfNotReusedLine"
                  /\ ~lines[idx].is_reused
                  /\ lines[idx].node \notin removed
                  /\ buffer_reuse_key(lines[idx].node) = key
                  /\ \A key2 \in Keys :
                        \A q \in 1..Len(reuse_pool[key2]) :
                            reuse_pool[key2][q] = idx => (key2 = key /\ q = p)
        /\ (pc = "plan" /\ i <= Len(lines)) =>
              /\ lines[i].type = "FreeIfNotReusedLine" => ~lines[i].is_reused
              /\ (/\ lines[i].type = "AllocateLine"
                  /\ Pool_contains(reuse_pool, buffer_reuse_key(lines[i].node)))
                    => ~lines[Pool_pop(reuse_pool,
                                       buffer_reuse_key(lines[i].node)).item].is_reused
        /\ pc = "failed" =>
              \E k \in 1..Len(lines) :
                  /\ lines[k].type = "ReuseLine"
                  /\ lines[k].node \in removed
                  /\ lines[k].reused_as \notin removed

\* pass 1 is under way on a list with a removed buffer: an entry was popped
\* and the pool now holds two entries under one key
C20_Witness ==
    /\ pc = "plan"
    /\ removed # {}
    /\ \E e \in Events : e.op = "pop"
    /\ \E key \in Keys : Len(reuse_pool[key]) >= 2

====
